---- MODULE Spec2Model ----
(***************************************************************************)
(* Model of batch_approve_base_mt.py: the per-account wallet_worker        *)
(* pipeline (nonce fetch, balance gate, allowance gate, approve, buy) and  *)
(* the orchestrator that fans it out over a bounded thread pool.           *)
(*                                                                         *)
(* Every RPC round trip of a worker is one action; its outcome (value      *)
(* returned, or exception raised) is chosen with \E.  Accounts are named   *)
(* by their 1-based position in the key list, which also stands for the    *)
(* derived address.                                                        *)
(***************************************************************************)
EXTENDS Integers, Sequences, FiniteSets, TLC

(* ------------------------------ bounds -------------------------------- *)

\* number of private keys loaded for the pool specification
NumAccounts == 3
\* accounts of the run that checks the proxy assignment
ProxyAccounts == 5
\* width of the thread pool (max_workers)
PoolWidth == 2
\* longest target list handed to a worker
MaxTargets == 2
\* longest market list handed to _prepare_oracle_map_from_markets
MaxMarkets == 3
\* largest pending nonce the chain reports at worker start
MaxStartNonce == 1
\* largest smallest-unit investment amount and largest balance read
MaxAmount == 2
\* largest minimum-tokens floor passed to a worker
MaxMinTokens == 1
\* longest proxy list
MaxProxies == 2
\* width of the unsigned integers of the token contract (256 on chain)
UintBits == 8

(* ------------------------- program constants -------------------------- *)

SEND_RETRIES == 2
USE_MAX_ALLOWANCE == TRUE
MAX_UINT256 == 2 ^ UintBits - 1
ALLOWANCE_THRESHOLD == MAX_UINT256 \div 2

\* market addresses as the strings a caller writes: MarketNames are four
\* addresses in lower-case spelling, ChecksumNames the same four addresses in
\* EIP-55 spelling
MarketNames == <<"m1", "m2", "m3", "m4">>
ChecksumNames == <<"M1", "M2", "M3", "M4">>

\* w3.to_checksum_address on a valid address string: the EIP-55 spelling
to_checksum_address(addr) ==
    IF \E i \in 1..Len(MarketNames) : MarketNames[i] = addr
    THEN ChecksumNames[CHOOSE i \in 1..Len(MarketNames) : MarketNames[i] = addr]
    ELSE addr

\* the i-th market address of a target list of distinct addresses, in
\* alternating spellings
Market(i) ==
    LET n == ((i - 1) % Len(MarketNames)) + 1
    IN IF i % 2 = 1 THEN MarketNames[n] ELSE ChecksumNames[n]

\* the i-th string of a target list that gives each address in both spellings
Respelled(i) ==
    LET n == (((i - 1) \div 2) % Len(MarketNames)) + 1
    IN IF i % 2 = 1 THEN MarketNames[n] ELSE ChecksumNames[n]

\* the target lists and proxy lists a run is given; proxy URLs are numbered
TargetLists ==
    {[i \in 1..n |-> Market(i)] : n \in 0..MaxTargets}
      \cup {[i \in 1..n |-> Respelled(i)] : n \in 0..MaxTargets}
ProxyLists == {[i \in 1..n |-> i - 1] : n \in 0..MaxProxies}
NoProxy == -1

\* outcomes of a read that raised, and of a read that has not happened
ReadFailed == -1
NoRead == -2
\* the worker's nonce before get_transaction_count has returned
NoNonce == -1

NoTx == [kind |-> "none", to |-> "", spender |-> "", nonce |-> 0,
         args |-> <<>>, value |-> 0]
NoResult == <<>>

\* signed: the payload send_raw_with_retry is submitting; it is not read again
\* once that call has returned or raised, and the model forgets it there.
VARIABLES
    \* inputs and configuration
    workers,              \* number of keys returned by load_private_keys
    max_workers,          \* pool width
    proxies,              \* proxy list
    market_addresses,     \* market list given to run_for_markets
    spenders_map,         \* spenders_by_oracle: group -> targets
    spenders,             \* targets of a worker, flattened in iteration order
    chain,                \* what the chain and the RPC endpoint do in this run
    buy_amount_smallest, buy_outcome_index, buy_min_tokens,
    DO_APPROVE, CHECK_ALLOWANCE, DO_BUY,
    \* chain state
    pending_nonce,        \* account -> pending transaction count at start
    \* orchestrator
    opc,                  \* "submit", "collect", "summary", "finished"
    futs,                 \* number of tasks submitted so far
    proxy,                \* account -> proxy given at submission
    collected,            \* accounts whose future as_completed has yielded
    results,              \* list of result tuples
    totals,               \* <<total_app, total_buy, total_skip>>
    \* workers
    wk                    \* account -> locals of its wallet_worker call

cfgVars == <<workers, max_workers, proxies, market_addresses, spenders_map,
             spenders, chain, buy_amount_smallest,
             buy_outcome_index, buy_min_tokens, DO_APPROVE, CHECK_ALLOWANCE,
             DO_BUY, pending_nonce>>
orchVars == <<opc, futs, proxy, collected, results, totals>>
vars == <<cfgVars, orchVars, wk>>

Accounts == 1..workers

(* ------------------------------ helpers ------------------------------- *)

RECURSIVE SumField(_, _)
SumField(rs, k) ==
    IF rs = <<>> THEN 0 ELSE rs[1][k] + SumField(Tail(rs), k)

proxy_for_index_ZeroBased(i) ==
    IF Len(proxies) = 0 THEN NoProxy
    ELSE proxies[(i % Len(proxies)) + 1]
proxy_for_index(i) ==
    IF Len(proxies) = 0 THEN NoProxy
    ELSE proxies[((i - 1) % Len(proxies)) + 1]

allowance_enough_FailOpen(val) ==
    IF val = ReadFailed THEN TRUE ELSE val >= ALLOWANCE_THRESHOLD
allowance_enough(val) ==
    IF val = ReadFailed THEN FALSE ELSE val >= ALLOWANCE_THRESHOLD

RECURSIVE Uniq(_, _)
\* the loop of lines 171-176: uniq after the addresses ms, starting from acc
Uniq(ms, acc) ==
    IF ms = <<>> THEN acc
    ELSE IF ms[1] = "" THEN Uniq(Tail(ms), acc)
    ELSE IF \E i \in 1..Len(acc) : acc[i] = ms[1] THEN Uniq(Tail(ms), acc)
    ELSE Uniq(Tail(ms), Append(acc, ms[1]))

prepare_oracle_map_from_markets(ms) ==
    [k \in {0} |-> Uniq(ms, <<>>)]

\* the chain and endpoint of a run: "any" lets every call return anything or
\* raise; "funded" is an endpoint that answers every call, accepts every
\* transaction and confirms it, over accounts holding the investment amount
\* and no allowance; "approved" is the same with the allowance at the maximum
ChainModes == {"any", "funded", "approved"}

\* whether a call to the endpoint returns (TRUE) or raises (FALSE)
Calls == IF chain = "any" THEN BOOLEAN ELSE {TRUE}

InitWorker ==
    [pc |-> "unsubmitted", nonce_fetch |-> "none", nonce |-> NoNonce,
     sent_approve |-> 0, sent_buy |-> 0, skipped_approve |-> 0,
     ti |-> 1, token_balance |-> NoRead, allowance_val |-> NoRead,
     receipt |-> "none", signed |-> NoTx, attempt |-> 0, txlog |-> <<>>, result |-> NoResult]

(* ------------------------------- Init --------------------------------- *)

InitOrch ==
    /\ opc = "submit"
    /\ futs = 0
    /\ proxy = [a \in Accounts |-> NoProxy]
    /\ collected = {}
    /\ results = <<>>
    /\ totals = <<0, 0, 0>>
    /\ wk = [a \in Accounts |-> InitWorker]

\* one account, every configuration and every target list
Init ==
    /\ workers = 1
    /\ max_workers = PoolWidth
    /\ proxies = <<>>
    /\ market_addresses \in TargetLists
    /\ spenders_map = prepare_oracle_map_from_markets(market_addresses)
    /\ spenders = spenders_map[0]
    /\ chain \in ChainModes
    /\ buy_amount_smallest \in 1..MaxAmount
    /\ buy_outcome_index \in {0, 1}
    /\ buy_min_tokens \in 0..MaxMinTokens
    /\ DO_APPROVE \in BOOLEAN
    /\ CHECK_ALLOWANCE \in BOOLEAN
    /\ DO_BUY \in BOOLEAN
    /\ pending_nonce \in [Accounts -> 0..MaxStartNonce]
    /\ InitOrch

\* lines 288-294: the oracle ids of price_map, in the order of its items
price_map == <<59, 61, 58, 60, 62>>

\* lines 383-388 with the first item selected: oracle_to_spenders has the key
\* of that oracle and, under it, the checksum spelling of its market address
oracle_to_spenders(all_market) ==
    [oid \in {price_map[1]} |-> <<to_checksum_address(all_market[1])>>]

\* main before line 404: several accounts over a narrower pool, the first
\* oracle selected; market_addresses holds ALL_MARKET of the selected oracle
\* as it was fetched
MainInit(n, mode) ==
    /\ workers = n
    /\ max_workers = PoolWidth
    /\ proxies \in ProxyLists
    /\ market_addresses = <<Market(1)>>
    /\ spenders_map = oracle_to_spenders(market_addresses)
    /\ spenders = spenders_map[price_map[1]]
    /\ chain = mode
    /\ buy_amount_smallest = MaxAmount
    /\ buy_outcome_index = 0
    /\ buy_min_tokens = 0
    /\ DO_APPROVE = TRUE
    /\ CHECK_ALLOWANCE = TRUE
    /\ DO_BUY = TRUE
    /\ pending_nonce = [a \in Accounts |-> 0]
    /\ InitOrch

\* main with any endpoint
PoolInit == MainInit(NumAccounts, "any")

\* main with more accounts, over an endpoint that answers every call
ProxyInit == MainInit(ProxyAccounts, "funded")

(* --------------------------- wallet_worker ---------------------------- *)

Running(a) ==
    wk[a].pc \in {"connect", "get_nonce", "target", "allowance", "approve_build",
                  "approve_send", "approve_wait", "buy_build", "buy_send",
                  "buy_sleep"}
Returned(a) == wk[a].pc \in {"done", "failed"}
Finished(a) == wk[a].pc \in {"done", "failed", "faulted"}

\* the outcomes an RPC read can have
BalanceReads ==
    IF chain = "any" THEN {ReadFailed} \cup 0..MaxAmount
    ELSE buy_amount_smallest..MaxAmount
AllowanceReads ==
    IF chain = "any"
    THEN {ReadFailed, ALLOWANCE_THRESHOLD - 1, ALLOWANCE_THRESHOLD}
    ELSE IF chain = "funded" THEN {0} ELSE {MAX_UINT256}
Receipts ==
    IF chain = "any" THEN {"success", "failed", "timeout"} ELSE {"success"}

ApproveTx(market, n) ==
    [kind |-> "approve", to |-> "token", spender |-> market, nonce |-> n,
     args |-> <<IF USE_MAX_ALLOWANCE THEN MAX_UINT256 ELSE ALLOWANCE_THRESHOLD>>,
     value |-> 0]

\* buy(investmentAmount, outcomeIndex, minOutcomeTokensToBuy) as line 255 encodes it
BuyArgs(amount, outcome, min_tokens) == <<amount, outcome, amount>>

BuyTx(market, n) ==
    [kind |-> "buy", to |-> market, spender |-> "", nonce |-> n,
     args |-> BuyArgs(buy_amount_smallest, buy_outcome_index, buy_min_tokens),
     value |-> 0]

\* line 206: market_cs of the target the worker is at
market_cs(w) == to_checksum_address(spenders[w.ti])

\* `continue`, or the end of the loop body: on to the next target
NextTarget_SkipsOne(w) ==
    [w EXCEPT !.pc = "target", !.ti = @ + 2]
NextTarget(w) ==
    [w EXCEPT !.pc = "target", !.ti = @ + 1]

\* the end of step 1: step 2 if buys are enabled
ToBuy(w) ==
    IF DO_BUY THEN [w EXCEPT !.pc = "buy_build"] ELSE NextTarget(w)

\* the balance gate of line 211
BalanceTooLow_OffByOne(balance, need) == balance < need - 1
BalanceTooLow(balance, need) == balance < need

\* the loop condition of send_raw_with_retry, seen after a failed attempt
RetriesLeft_OneMore(attempt) == attempt <= SEND_RETRIES
RetriesLeft(attempt) == attempt < SEND_RETRIES

\* lines 159-163: the attempt failed and another one follows
Retry_Resigned(w) ==
    [w EXCEPT !.attempt = @ + 1, !.signed = [@ EXCEPT !.nonce = @ + 1]]
Retry(w) ==
    [w EXCEPT !.attempt = @ + 1]

\* lines 237-239: the approval's receipt has status 1
ApproveConfirmed_CountOnly(w) ==
    [w EXCEPT !.sent_approve = @ + 1]
ApproveConfirmed_NonceOnly(w) ==
    [w EXCEPT !.nonce = @ + 1]
ApproveConfirmed(w) ==
    [w EXCEPT !.nonce = @ + 1, !.sent_approve = @ + 1]

\* lines 275-276: the buy was accepted by the endpoint
BuySent_NoNonce(w) ==
    [w EXCEPT !.sent_buy = @ + 1]
BuySent_Twice(w) ==
    [w EXCEPT !.nonce = @ + 1, !.sent_buy = @ + 2]
BuySent(w) ==
    [w EXCEPT !.nonce = @ + 1, !.sent_buy = @ + 1]

\* a pool of max_workers threads has an idle thread for a queued task
PoolHasRoom_Unbounded(running, width) == TRUE
PoolHasRoom(running, width) == running < width

\* the call has ended (returned or raised): its locals are gone, what it sent
\* to the chain and what its future holds remain
Ended(w, how, res) ==
    [InitWorker EXCEPT !.pc = how, !.result = res, !.txlog = w.txlog,
                       !.nonce_fetch = w.nonce_fetch]

\* the worker's state after get_transaction_count raised
NonceFetchFailed_Continues(w, a) ==
    [w EXCEPT !.pc = "target", !.nonce = 0]
NonceFetchFailed(w, a) ==
    Ended(w, "failed", <<a, 0, 0, 0>>)

\* the worker's state after allowance_enough returned true
SkipApprove_Uncounted(w) ==
    ToBuy(w)
SkipApprove(w) ==
    ToBuy([w EXCEPT !.skipped_approve = @ + 1])

\* a pool thread takes the task: make_w3_with_proxy is about to run
Start(a) ==
    /\ wk[a].pc = "queued"
    /\ \A b \in Accounts : b < a => wk[b].pc # "queued"
    /\ PoolHasRoom(Cardinality({b \in Accounts : Running(b)}), max_workers)
    /\ wk' = [wk EXCEPT ![a].pc = "connect"]
    /\ UNCHANGED <<cfgVars, orchVars>>

\* lines 186-189: the client, the account and the token contract
MakeW3(a) ==
    /\ wk[a].pc = "connect"
    /\ \E ok \in Calls :
         wk' = [wk EXCEPT ![a] = IF ok THEN [@ EXCEPT !.pc = "get_nonce"]
                                       ELSE Ended(@, "faulted", NoResult)]
    /\ UNCHANGED <<cfgVars, orchVars>>

\* lines 191-201
FetchNonce(a) ==
    /\ wk[a].pc = "get_nonce"
    /\ \E ok \in Calls :
         wk' = [wk EXCEPT ![a] =
                  IF ok
                  THEN [@ EXCEPT !.pc = "target", !.nonce_fetch = "ok",
                                 !.nonce = pending_nonce[a]]
                  ELSE NonceFetchFailed([@ EXCEPT !.nonce_fetch = "error"], a)]
    /\ UNCHANGED <<cfgVars, orchVars>>

\* lines 205-213, and the dispatch of lines 216-217, 250
ReadBalance(a) ==
    /\ wk[a].pc = "target"
    /\ wk[a].ti <= Len(spenders)
    /\ \E b \in BalanceReads :
         wk' = [wk EXCEPT ![a] =
                  IF b = ReadFailed
                  THEN Ended(@, "faulted", NoResult)
                  ELSE IF BalanceTooLow(b, buy_amount_smallest)
                  THEN NextTarget([@ EXCEPT !.token_balance = b, !.receipt = "none",
                                            !.allowance_val = NoRead])
                  ELSE IF DO_APPROVE
                  THEN [@ EXCEPT !.token_balance = b, !.allowance_val = NoRead,
                                 !.receipt = "none",
                                 !.pc = IF CHECK_ALLOWANCE THEN "allowance"
                                        ELSE "approve_build"]
                  ELSE ToBuy([@ EXCEPT !.token_balance = b, !.receipt = "none",
                                       !.allowance_val = NoRead])]
    /\ UNCHANGED <<cfgVars, orchVars>>

\* lines 217-219
AllowanceGate(a) ==
    /\ wk[a].pc = "allowance"
    /\ \E v \in AllowanceReads :
         wk' = [wk EXCEPT ![a] =
                  IF allowance_enough(v)
                  THEN SkipApprove([@ EXCEPT !.allowance_val = v])
                  ELSE [@ EXCEPT !.allowance_val = v, !.pc = "approve_build"]]
    /\ UNCHANGED <<cfgVars, orchVars>>

\* lines 222-231: gas price, build_transaction, sign_transaction
BuildApprove(a) ==
    /\ wk[a].pc = "approve_build"
    /\ \E ok \in Calls :
         wk' = [wk EXCEPT ![a] =
                  IF ok
                  THEN [@ EXCEPT !.pc = "approve_send", !.attempt = 1,
                                 !.allowance_val = NoRead,
                                 !.signed = ApproveTx(market_cs(wk[a]), wk[a].nonce)]
                  ELSE ToBuy([@ EXCEPT !.allowance_val = NoRead])]
    /\ UNCHANGED <<cfgVars, orchVars>>

\* line 232: one attempt of send_raw_with_retry
SendApprove(a) ==
    /\ wk[a].pc = "approve_send"
    /\ \E ok \in Calls :
         wk' = [wk EXCEPT ![a] =
                  IF ok
                  THEN [@ EXCEPT !.pc = "approve_wait", !.attempt = 0,
                                 !.signed = NoTx,
                                 !.txlog = Append(@, wk[a].signed)]
                  ELSE IF RetriesLeft(wk[a].attempt)
                  THEN Retry(@)
                  ELSE ToBuy([@ EXCEPT !.attempt = 0, !.signed = NoTx])]
    /\ UNCHANGED <<cfgVars, orchVars>>

\* lines 235-244
WaitApprove(a) ==
    /\ wk[a].pc = "approve_wait"
    /\ \E r \in Receipts :
         wk' = [wk EXCEPT ![a] =
                  IF r = "success"
                  THEN ToBuy(ApproveConfirmed([@ EXCEPT !.receipt = r]))
                  ELSE ToBuy([@ EXCEPT !.receipt = r])]
    /\ UNCHANGED <<cfgVars, orchVars>>

\* lines 252-272
BuildBuy(a) ==
    /\ wk[a].pc = "buy_build"
    /\ \E ok \in Calls :
         wk' = [wk EXCEPT ![a] =
                  IF ok
                  THEN [@ EXCEPT !.pc = "buy_send", !.attempt = 1,
                                 !.allowance_val = NoRead, !.receipt = "none",
                                 !.signed = BuyTx(market_cs(wk[a]), wk[a].nonce)]
                  ELSE NextTarget([@ EXCEPT !.allowance_val = NoRead,
                                            !.receipt = "none"])]
    /\ UNCHANGED <<cfgVars, orchVars>>

\* lines 273-280: one attempt of send_raw_with_retry; an accepted buy is
\* counted (lines 275-276) before the sleep of line 277
SendBuy(a) ==
    /\ wk[a].pc = "buy_send"
    /\ \E ok \in Calls :
         wk' = [wk EXCEPT ![a] =
                  IF ok
                  THEN BuySent([@ EXCEPT !.pc = "buy_sleep", !.attempt = 0,
                                         !.signed = NoTx,
                                         !.txlog = Append(@, wk[a].signed)])
                  ELSE IF RetriesLeft(wk[a].attempt)
                  THEN Retry(@)
                  ELSE NextTarget([@ EXCEPT !.attempt = 0, !.signed = NoTx])]
    /\ UNCHANGED <<cfgVars, orchVars>>

\* line 277: the sleep after an accepted buy ends and the loop goes on
SleepAfterBuy(a) ==
    /\ wk[a].pc = "buy_sleep"
    /\ wk' = [wk EXCEPT ![a] = NextTarget(@)]
    /\ UNCHANGED <<cfgVars, orchVars>>

\* lines 282-283
Finish(a) ==
    /\ wk[a].pc = "target"
    /\ wk[a].ti > Len(spenders)
    /\ wk' = [wk EXCEPT ![a] =
                  Ended(@, "done", <<a, wk[a].sent_approve, wk[a].sent_buy,
                                     wk[a].skipped_approve>>)]
    /\ UNCHANGED <<cfgVars, orchVars>>

(* ---------------------------- orchestrator ---------------------------- *)

\* results.append(f.result()) inside try/except
CollectResult_CountsFault(rs, w) ==
    Append(rs, IF w.pc = "faulted" THEN <<0, 0, 0, 0>> ELSE w.result)
CollectResult(rs, w) ==
    IF w.pc = "faulted" THEN rs ELSE Append(rs, w.result)

\* one iteration of the submission loop
Submit ==
    /\ opc = "submit"
    /\ futs < workers
    /\ futs' = futs + 1
    /\ proxy' = [proxy EXCEPT ![futs + 1] = proxy_for_index(futs + 1)]
    /\ wk' = [wk EXCEPT ![futs + 1].pc = "queued"]
    /\ opc' = IF futs + 1 = workers THEN "collect" ELSE "submit"
    /\ UNCHANGED <<cfgVars, collected, results, totals>>

\* one iteration of the as_completed loop
Collect(a) ==
    /\ opc = "collect"
    /\ a \notin collected
    /\ Finished(a)
    /\ collected' = collected \cup {a}
    /\ results' = CollectResult(results, wk[a])
    /\ UNCHANGED <<cfgVars, opc, futs, proxy, totals, wk>>

\* the pool is shut down and the totals are summed
Summarise ==
    /\ opc = "collect"
    /\ collected = Accounts
    /\ totals' = <<SumField(results, 2), SumField(results, 3), SumField(results, 4)>>
    /\ opc' = "finished"
    /\ UNCHANGED <<cfgVars, futs, proxy, collected, results, wk>>

Next ==
    \/ Submit
    \/ \E a \in Accounts : Start(a)
    \/ \E a \in Accounts : MakeW3(a)
    \/ \E a \in Accounts : FetchNonce(a)
    \/ \E a \in Accounts : ReadBalance(a)
    \/ \E a \in Accounts : AllowanceGate(a)
    \/ \E a \in Accounts : BuildApprove(a)
    \/ \E a \in Accounts : SendApprove(a)
    \/ \E a \in Accounts : WaitApprove(a)
    \/ \E a \in Accounts : BuildBuy(a)
    \/ \E a \in Accounts : SendBuy(a)
    \/ \E a \in Accounts : SleepAfterBuy(a)
    \/ \E a \in Accounts : Finish(a)
    \/ \E a \in Accounts : Collect(a)
    \/ Summarise

Spec == Init /\ [][Next]_vars

PoolSpec == PoolInit /\ [][Next]_vars

ProxySpec == ProxyInit /\ [][Next]_vars

\* every thread of the pool keeps running and every RPC call returns or times out
\* the market lists a caller can hand to run_for_markets: addresses in any
\* order, repeated or empty
MarketInputs ==
    UNION {[1..n -> {"", "m1", "M1", "m2", "M2"}] : n \in 0..MaxMarkets}

\* run_for_markets before line 472, nothing submitted
PrepInit ==
    /\ workers = 1
    /\ max_workers = PoolWidth
    /\ proxies = <<>>
    /\ market_addresses \in MarketInputs
    /\ spenders_map = <<>>
    /\ spenders = <<>>
    /\ chain = "any"
    /\ buy_amount_smallest = MaxAmount
    /\ buy_outcome_index = 0
    /\ buy_min_tokens = 0
    /\ DO_APPROVE = TRUE
    /\ CHECK_ALLOWANCE = TRUE
    /\ DO_BUY = TRUE
    /\ pending_nonce = [a \in Accounts |-> 0]
    /\ opc = "prepare"
    /\ futs = 0
    /\ proxy = [a \in Accounts |-> NoProxy]
    /\ collected = {}
    /\ results = <<>>
    /\ totals = <<0, 0, 0>>
    /\ wk = [a \in Accounts |-> InitWorker]

\* line 472: spenders_map = _prepare_oracle_map_from_markets(market_addresses)
Prepare ==
    /\ opc = "prepare"
    /\ spenders_map' = prepare_oracle_map_from_markets(market_addresses)
    /\ spenders' = spenders_map'[0]
    /\ opc' = "prepared"
    /\ UNCHANGED <<workers, max_workers, proxies, market_addresses, chain,
                   buy_amount_smallest, buy_outcome_index, buy_min_tokens,
                   DO_APPROVE, CHECK_ALLOWANCE, DO_BUY, pending_nonce,
                   futs, proxy, collected, results, totals, wk>>

\* the function applied to the list it returned; spenders keeps the first list
PrepareAgain ==
    /\ opc = "prepared"
    /\ market_addresses' = spenders_map[0]
    /\ spenders_map' = prepare_oracle_map_from_markets(spenders_map[0])
    /\ opc' = "prepared_again"
    /\ UNCHANGED <<workers, max_workers, proxies, spenders, chain,
                   buy_amount_smallest, buy_outcome_index, buy_min_tokens,
                   DO_APPROVE, CHECK_ALLOWANCE, DO_BUY, pending_nonce,
                   futs, proxy, collected, results, totals, wk>>

PrepNext ==
    \/ Prepare
    \/ PrepareAgain

PrepSpec == PrepInit /\ [][PrepNext]_vars

FairPoolSpec == PoolInit /\ [][Next]_vars /\ WF_vars(Next)

(* ------------------------------ claims -------------------------------- *)

\* a step of account a's worker
Stepped(a) == wk'[a] # wk[a]

RECURSIVE SumOver(_, _)
\* the sum of field k of the results of the accounts in S
SumOver(S, k) ==
    IF S = {} THEN 0
    ELSE LET a == CHOOSE x \in S : TRUE
         IN wk[a].result[k] + SumOver(S \ {a}, k)

\* C1: within one account's run the nonces of the transactions it submitted,
\* approvals and buys in submission order, are strictly increasing.
C1_NoncesStrictlyIncreasing ==
    \A a \in Accounts :
      \A i \in 1..(Len(wk[a].txlog) - 1) :
        wk[a].txlog[i].nonce < wk[a].txlog[i + 1].nonce

\* C2: a balance read below the required amount sends the worker straight to
\* the next target: no transaction is built or submitted, and the nonce and
\* the three counters keep their values.
C2_LowBalanceSkipsTarget ==
    [][\A a \in Accounts :
         (/\ wk[a].pc = "target"
          /\ Stepped(a)
          /\ wk'[a].token_balance >= 0
          /\ wk'[a].token_balance < buy_amount_smallest)
         => /\ wk'[a].pc = "target"
            /\ wk'[a].ti = wk[a].ti + 1
            /\ wk'[a].nonce = wk[a].nonce
            /\ wk'[a].sent_approve = wk[a].sent_approve
            /\ wk'[a].sent_buy = wk[a].sent_buy
            /\ wk'[a].skipped_approve = wk[a].skipped_approve
            /\ wk'[a].signed = NoTx
            /\ wk'[a].txlog = wk[a].txlog]_vars

\* C2 witness: the first of two targets was skipped for a low balance and the
\* worker stands at the second
C2_Witness ==
    \E a \in Accounts :
      /\ wk[a].pc = "target"
      /\ wk[a].ti = 2
      /\ Len(spenders) = 2
      /\ wk[a].token_balance >= 0
      /\ wk[a].token_balance < buy_amount_smallest
      /\ DO_APPROVE /\ DO_BUY

\* C3: a worker's call raises only in its setup phase, before the starting
\* nonce was fetched; no error while iterating targets ends the call.
C3_OnlySetupErrorsEndTheRun ==
    \A a \in Accounts :
      wk[a].pc = "faulted" => wk[a].nonce_fetch = "none"

\* C4: every submitted buy encodes (investment amount, outcome index,
\* minimum-tokens floor given to the worker) and carries value zero.
C4_BuyEncodesMinTokens ==
    \A a \in Accounts :
      \A i \in 1..Len(wk[a].txlog) :
        wk[a].txlog[i].kind = "buy"
        => /\ wk[a].txlog[i].args =
                <<buy_amount_smallest, buy_outcome_index, buy_min_tokens>>
           /\ wk[a].txlog[i].value = 0

\* C5: a signed transaction is submitted at most SEND_RETRIES times; the first
\* successful attempt ends the sending, and a failure of the last attempt
\* moves the worker to its next step (the buy step after an approval, the
\* next target after a buy) without ending the call.
C5_SendRetriesBounded ==
    [][\A a \in Accounts :
         /\ wk'[a].attempt <= SEND_RETRIES
         /\ (wk[a].pc = "approve_send" /\ Stepped(a))
            => \/ /\ wk'[a].pc = "approve_wait"
                  /\ wk'[a].txlog = Append(wk[a].txlog, wk[a].signed)
               \/ /\ wk[a].attempt < SEND_RETRIES
                  /\ wk'[a].pc = "approve_send"
                  /\ wk'[a].attempt = wk[a].attempt + 1
                  /\ wk'[a].signed = wk[a].signed
                  /\ wk'[a].txlog = wk[a].txlog
               \/ /\ wk[a].attempt = SEND_RETRIES
                  /\ wk'[a].pc = IF DO_BUY THEN "buy_build" ELSE "target"
                  /\ wk'[a].ti = IF DO_BUY THEN wk[a].ti ELSE wk[a].ti + 1
                  /\ wk'[a].txlog = wk[a].txlog
         /\ (wk[a].pc = "buy_send" /\ Stepped(a))
            => \/ /\ wk'[a].pc = "buy_sleep"
                  /\ wk'[a].ti = wk[a].ti
                  /\ wk'[a].txlog = Append(wk[a].txlog, wk[a].signed)
               \/ /\ wk[a].attempt < SEND_RETRIES
                  /\ wk'[a].pc = "buy_send"
                  /\ wk'[a].attempt = wk[a].attempt + 1
                  /\ wk'[a].signed = wk[a].signed
                  /\ wk'[a].txlog = wk[a].txlog
               \/ /\ wk[a].attempt = SEND_RETRIES
                  /\ wk'[a].pc = "target"
                  /\ wk'[a].ti = wk[a].ti + 1
                  /\ wk'[a].txlog = wk[a].txlog]_vars

\* C5 witness: the last permitted attempt of a buy is in flight after an
\* approval that was submitted on its last attempt too
C5_Witness ==
    \E a \in Accounts :
      /\ wk[a].pc = "buy_send"
      /\ wk[a].attempt = SEND_RETRIES
      /\ Len(wk[a].txlog) = 1
      /\ wk[a].txlog[1].kind = "approve"

\* C6: when the allowance pre-check reads an allowance at or above the
\* threshold, the skipped-approval counter grows by exactly 1, no approval is
\* built or submitted, and the nonce and the approvals-sent counter keep
\* their values.
C6_SufficientAllowanceSkipsApproval ==
    [][\A a \in Accounts :
         (/\ wk[a].pc = "allowance"
          /\ Stepped(a)
          /\ wk'[a].allowance_val >= ALLOWANCE_THRESHOLD)
         => /\ DO_APPROVE /\ CHECK_ALLOWANCE
            /\ wk'[a].skipped_approve = wk[a].skipped_approve + 1
            /\ wk'[a].nonce = wk[a].nonce
            /\ wk'[a].sent_approve = wk[a].sent_approve
            /\ wk'[a].signed = NoTx
            /\ wk'[a].txlog = wk[a].txlog
            /\ wk'[a].pc \in {"buy_build", "target"}]_vars

\* C6 witness: the pre-check has just reported a sufficient allowance
C6_Witness ==
    \E a \in Accounts :
      /\ wk[a].allowance_val >= ALLOWANCE_THRESHOLD
      /\ wk[a].skipped_approve = 1
      /\ wk[a].sent_approve = 0
      /\ wk[a].pc = "buy_build"

\* C7: never more than max_workers tasks run at once, the orchestrator
\* finishes only when every task has ended, and it does finish.
C7_PoolBoundAndCompletion ==
    /\ [](Cardinality({a \in Accounts : Running(a)}) <= max_workers)
    /\ [](opc = "finished" => \A a \in Accounts : Finished(a))
    /\ <>[](opc = "finished")

\* C7 witness: the pool is full while a submitted task waits for a thread
C7_Witness ==
    /\ workers = NumAccounts
    /\ Cardinality({a \in Accounts : Running(a)}) = max_workers
    /\ \E a \in Accounts : wk[a].pc = "queued"

\* C8: the collected results hold exactly one tuple for every collected task
\* that returned, and that task's own tuple; a faulted task adds none; the
\* totals are the sums over the returned tasks.
C8_FaultsAreIsolated ==
    /\ opc \in {"submit", "collect", "finished"}
    /\ Len(results) = Cardinality({a \in collected : Returned(a)})
    /\ \A a \in collected :
         IF wk[a].pc = "faulted"
         THEN \A i \in 1..Len(results) : results[i][1] # a
         ELSE \E i \in 1..Len(results) :
                /\ results[i] = wk[a].result
                /\ results[i][1] = a
                /\ \A j \in 1..Len(results) : results[j][1] = a => j = i
    /\ opc = "finished"
       => /\ collected = Accounts
          /\ totals = <<SumOver({a \in Accounts : Returned(a)}, 2),
                        SumOver({a \in Accounts : Returned(a)}, 3),
                        SumOver({a \in Accounts : Returned(a)}, 4)>>

\* C8 witness: the batch finished with one task faulted and a later account's
\* approval and buy counted
C8_Witness ==
    /\ opc = "finished"
    /\ wk[1].pc = "faulted"
    /\ Len(results) = workers - 1
    /\ totals[1] >= 1 /\ totals[2] >= 1

\* C9: a worker whose starting nonce could not be fetched ends in the failed
\* state with the result (address, 0, 0, 0) and has submitted nothing.
C9_NonceFetchFailureIsZeroEffect ==
    \A a \in Accounts :
      wk[a].nonce_fetch = "error"
      => /\ wk[a].pc = "failed"
         /\ wk[a].result = <<a, 0, 0, 0>>
         /\ wk[a].txlog = <<>>
         /\ wk[a].token_balance = NoRead
         /\ a \in collected => \E i \in 1..Len(results) : results[i] = <<a, 0, 0, 0>>

\* C9 witness: the run finished with the failed worker's tuple collected
C9_Witness ==
    \E a \in Accounts :
      /\ wk[a].pc = "failed"
      /\ opc = "finished"
      /\ results = <<(<<a, 0, 0, 0>>)>>
      /\ Len(spenders) > 0

\* C10: the account at 1-based position i is given the proxy numbered
\* (i - 1) mod len(proxies), or none when the list is empty, whatever the
\* tasks have done since.
C10_ProxyByPosition ==
    \A i \in Accounts :
      proxy[i] = IF i > futs \/ proxies = <<>> THEN NoProxy
                 ELSE (i - 1) % Len(proxies)

\* C10 witness: two proxies over five accounts, all submitted, with the second
\* account's task collected before the first has ended
C10_Witness ==
    /\ Len(proxies) = 2
    /\ workers = 5
    /\ proxy = <<0, 1, 0, 1, 0>>
    /\ 2 \in collected
    /\ Running(1)

\* C11: with approvals and buys enabled and the allowance pre-check disabled,
\* an account whose k targets all hold the investment amount, whose sends are
\* all accepted and whose approvals are all confirmed returns
\* (address, k, k, 0).
C11_AllSucceedWithoutPreCheck ==
    \A a \in Accounts :
      ( /\ chain = "funded"
        /\ DO_APPROVE /\ DO_BUY /\ ~CHECK_ALLOWANCE
        /\ Finished(a) )
      => /\ wk[a].pc = "done"
         /\ wk[a].result = <<a, Len(spenders), Len(spenders), 0>>
         /\ Len(wk[a].txlog) = 2 * Len(spenders)

\* C11 witness: such a run over two targets has returned
C11_Witness ==
    \E a \in Accounts :
      /\ chain = "funded"
      /\ DO_APPROVE /\ DO_BUY /\ ~CHECK_ALLOWANCE
      /\ Len(spenders) = 2
      /\ wk[a].pc = "done"
      /\ wk[a].result = <<a, 2, 2, 0>>

\* C12: with approvals, buys and the pre-check enabled, an account whose k
\* targets all hold the investment amount and already have an allowance at or
\* above the threshold, and whose buy sends are all accepted, returns
\* (address, 0, k, k), and its buys carry the k consecutive nonces that start
\* at the nonce it fetched.
C12_AllowancePresentBuysOnly ==
    \A a \in Accounts :
      ( /\ chain = "approved"
        /\ DO_APPROVE /\ DO_BUY /\ CHECK_ALLOWANCE
        /\ Finished(a) )
      => /\ wk[a].pc = "done"
         /\ wk[a].result = <<a, 0, Len(spenders), Len(spenders)>>
         /\ Len(wk[a].txlog) = Len(spenders)
         /\ \A i \in 1..Len(spenders) :
              /\ wk[a].txlog[i].kind = "buy"
              /\ wk[a].txlog[i].to = to_checksum_address(spenders[i])
              /\ wk[a].txlog[i].nonce = pending_nonce[a] + (i - 1)

\* C12 witness: such a run over two targets has returned, from a starting
\* nonce that is not zero
C12_Witness ==
    \E a \in Accounts :
      /\ chain = "approved"
      /\ DO_APPROVE /\ DO_BUY /\ CHECK_ALLOWANCE
      /\ Len(spenders) = 2
      /\ pending_nonce[a] = MaxStartNonce
      /\ wk[a].pc = "done"
      /\ wk[a].result = <<a, 0, 2, 2>>

\* C13: a step of the approval stage advances the nonce by 1 and counts one
\* approval sent exactly when it is the receipt wait of a submitted approval
\* and the receipt has success status; every other step of the stage (a failed
\* build, a failed send attempt, the last failed attempt, a time-out, a failure
\* status) leaves both unchanged; and when the stage ends, however it ends,
\* the worker goes on to the buy step of the same target.
C13_ApproveCountsOnlyConfirmed ==
    [][\A a \in Accounts :
         (Stepped(a) /\ wk[a].pc \in {"approve_build", "approve_send", "approve_wait"})
         => LET confirmed == wk[a].pc = "approve_wait" /\ wk'[a].receipt = "success"
                over == wk'[a].pc \notin {"approve_build", "approve_send", "approve_wait"}
            IN /\ wk'[a].nonce = wk[a].nonce + (IF confirmed THEN 1 ELSE 0)
               /\ wk'[a].sent_approve = wk[a].sent_approve + (IF confirmed THEN 1 ELSE 0)
               /\ wk'[a].sent_buy = wk[a].sent_buy
               /\ wk'[a].skipped_approve = wk[a].skipped_approve
               /\ wk'[a].pc = "approve_wait"
                    => /\ wk[a].pc = "approve_send"
                       /\ wk'[a].txlog = Append(wk[a].txlog, wk[a].signed)
               /\ wk[a].pc = "approve_wait"
                    => over /\ wk'[a].receipt \in {"success", "failed", "timeout"}
               /\ (over /\ DO_BUY)
                    => wk'[a].pc = "buy_build" /\ wk'[a].ti = wk[a].ti
               /\ (over /\ ~DO_BUY)
                    => wk'[a].pc = "target" /\ wk'[a].ti = wk[a].ti + 1
       ]_vars

\* C13 witness: the approval was submitted, its receipt did not arrive in time,
\* and the worker is at the buy step of the same target with nonce and counter
\* as they were
C13_Witness ==
    \E a \in Accounts :
      /\ wk[a].pc = "buy_build"
      /\ wk[a].receipt = "timeout"
      /\ wk[a].ti = 1
      /\ Len(wk[a].txlog) = 1
      /\ wk[a].txlog[1].kind = "approve"
      /\ wk[a].nonce = pending_nonce[a]
      /\ wk[a].sent_approve = 0

\* C14: a step of the buy stage advances the nonce by 1 and counts one buy sent
\* exactly when it is a send attempt the endpoint accepted, and the worker
\* then only pauses before the next target, with no wait for a receipt; a
\* failed build or a failed attempt leaves nonce and counter unchanged, and
\* when the stage ends the worker is at the next target.
C14_BuyCountsOnSend ==
    [][\A a \in Accounts :
         (Stepped(a) /\ wk[a].pc \in {"buy_build", "buy_send", "buy_sleep"})
         => LET sent == /\ wk[a].pc = "buy_send"
                        /\ wk'[a].txlog = Append(wk[a].txlog, wk[a].signed)
                over == wk'[a].pc \notin {"buy_build", "buy_send", "buy_sleep"}
            IN /\ wk'[a].nonce = wk[a].nonce + (IF sent THEN 1 ELSE 0)
               /\ wk'[a].sent_buy = wk[a].sent_buy + (IF sent THEN 1 ELSE 0)
               /\ wk'[a].sent_approve = wk[a].sent_approve
               /\ wk'[a].skipped_approve = wk[a].skipped_approve
               /\ ~sent => wk'[a].txlog = wk[a].txlog
               /\ sent <=> wk'[a].pc = "buy_sleep"
               /\ wk[a].pc = "buy_sleep" => over
               /\ over => wk'[a].pc = "target" /\ wk'[a].ti = wk[a].ti + 1
               /\ ~over => wk'[a].ti = wk[a].ti
               /\ wk[a].pc = "buy_build" => wk'[a].pc \in {"buy_send", "target"}
               /\ (wk[a].pc = "buy_send" /\ ~over /\ ~sent)
                    => wk'[a].pc = "buy_send" /\ wk'[a].signed = wk[a].signed
       ]_vars

\* C14 witness: the first target's buy has just been accepted: nonce and
\* counter are advanced while the worker is still at that target, no receipt
\* having been awaited
C14_Witness ==
    \E a \in Accounts :
      /\ wk[a].pc = "buy_sleep"
      /\ wk[a].ti = 1
      /\ wk[a].sent_buy = 1
      /\ wk[a].nonce = pending_nonce[a] + 1
      /\ wk[a].receipt = "none"
      /\ Len(wk[a].txlog) = 1
      /\ wk[a].txlog[1].kind = "buy"

\* the place of a worker's position within the body of the target loop
StageRank(pc) ==
    CASE pc = "target" -> 0
      [] pc = "allowance" -> 1
      [] pc = "approve_build" -> 2
      [] pc = "approve_send" -> 3
      [] pc = "approve_wait" -> 4
      [] pc = "buy_build" -> 5
      [] pc = "buy_send" -> 6
      [] pc = "buy_sleep" -> 7
      [] OTHER -> 8

InLoop(w) ==
    w.pc \in {"target", "allowance", "approve_build", "approve_send",
              "approve_wait", "buy_build", "buy_send", "buy_sleep"}

\* the market a transaction is for
MarketOf(tx) == IF tx.kind = "approve" THEN tx.spender ELSE tx.to

\* the targets of the list are different markets
DistinctMarkets(ms) ==
    \A i, j \in 1..Len(ms) :
      i # j => to_checksum_address(ms[i]) # to_checksum_address(ms[j])

\* the index in spenders of the market a submitted transaction is for, in a
\* list of different markets
TargetIndex(tx) ==
    CHOOSE i \in 1..Len(spenders) : to_checksum_address(spenders[i]) = MarketOf(tx)

\* C15: a worker handles its targets in the order of the list, one at a time:
\* every step either stays at the same target without going back to an earlier
\* stage (balance, allowance, approval build, approval send, receipt wait, buy
\* build, buy send), or leaves the loop body for the next target in the list,
\* or ends the run; every transaction submitted is for the current target;
\* and when the targets are different markets the submitted transactions
\* name them in list order, with a target's approval before its buy.
C15_TargetsInOrder ==
    /\ [](\A a \in Accounts :
            \A i, j \in 1..Len(wk[a].txlog) :
              (i < j /\ DistinctMarkets(spenders)) =>
                LET x == wk[a].txlog[i]
                    y == wk[a].txlog[j]
                IN \/ TargetIndex(x) < TargetIndex(y)
                   \/ /\ TargetIndex(x) = TargetIndex(y)
                      /\ x.kind = "approve" /\ y.kind = "buy")
    /\ [][\A a \in Accounts :
            (Stepped(a) /\ InLoop(wk[a]))
            => /\ \/ /\ InLoop(wk'[a])
                     /\ wk'[a].ti = wk[a].ti
                     /\ StageRank(wk'[a].pc) >= StageRank(wk[a].pc)
                     /\ wk[a].ti <= Len(spenders)
                  \/ /\ wk'[a].pc = "target"
                     /\ wk'[a].ti = wk[a].ti + 1
                     /\ wk[a].ti <= Len(spenders)
                  \/ ~InLoop(wk'[a])
               /\ wk'[a].txlog # wk[a].txlog
                    => /\ wk'[a].txlog = Append(wk[a].txlog, wk[a].signed)
                       /\ MarketOf(wk[a].signed) = to_checksum_address(spenders[wk[a].ti])
                       /\ wk[a].signed.kind =
                            (IF wk[a].pc = "approve_send" THEN "approve" ELSE "buy")
                       /\ wk[a].pc \in {"approve_send", "buy_send"}
      ]_vars

\* C15 witness: approval and buy of the first target, then approval and buy
\* of the second, have been submitted
C15_Witness ==
    \E a \in Accounts :
      /\ Len(spenders) = 2
      /\ Len(wk[a].txlog) = 4
      /\ spenders = <<"m1", "M2">>
      /\ wk[a].txlog[1].kind = "approve" /\ wk[a].txlog[1].spender = "M1"
      /\ wk[a].txlog[2].kind = "buy" /\ wk[a].txlog[2].to = "M1"
      /\ wk[a].txlog[3].kind = "approve" /\ wk[a].txlog[3].spender = "M2"
      /\ wk[a].txlog[4].kind = "buy" /\ wk[a].txlog[4].to = "M2"

\* C16: while send_raw_with_retry is at work on one step the payload it submits
\* is the one signed before the call, carrying the worker's nonce of that
\* moment, and a failed attempt that is followed by another changes neither
\* the payload nor the worker's nonce: all attempts submit the same bytes.
C16_RetriesResubmitSamePayload ==
    [][\A a \in Accounts :
         (Stepped(a) /\ wk[a].pc \in {"approve_send", "buy_send"})
         => /\ wk[a].signed # NoTx
            /\ wk[a].signed.nonce = wk[a].nonce
            /\ wk[a].signed.kind = (IF wk[a].pc = "approve_send" THEN "approve" ELSE "buy")
            /\ wk'[a].pc = wk[a].pc
                 => /\ wk'[a].signed = wk[a].signed
                    /\ wk'[a].nonce = wk[a].nonce
                    /\ wk'[a].signed.nonce = wk'[a].nonce
            /\ wk'[a].txlog # wk[a].txlog
                 => wk'[a].txlog = Append(wk[a].txlog, wk[a].signed)
       ]_vars

\* C16 witness: the second attempt of a buy send, after one approval was
\* confirmed, is about to submit the payload signed with the worker's nonce
C16_Witness ==
    \E a \in Accounts :
      /\ wk[a].pc = "buy_send"
      /\ wk[a].attempt = 2
      /\ wk[a].sent_approve = 1
      /\ wk[a].signed = BuyTx(market_cs(wk[a]), pending_nonce[a] + 1)
      /\ wk[a].nonce = pending_nonce[a] + 1

\* C17: the pre-check reports a sufficient allowance exactly when the read
\* returned a value at or above ALLOWANCE_THRESHOLD, which is half of the
\* largest unsigned integer; a read that raised, like a value below the
\* threshold, is reported as insufficient without ending the worker: the
\* skipped counter keeps its value and the worker goes on to build a fresh
\* approval.
C17_FailedAllowanceReadApproves ==
    [][\A a \in Accounts :
         (Stepped(a) /\ wk[a].pc = "allowance")
         => LET v == wk'[a].allowance_val
                enough == v # ReadFailed /\ 2 * v + 1 >= MAX_UINT256
            IN /\ v \in {ReadFailed} \cup 0..MAX_UINT256
               /\ enough
                    => /\ wk'[a].skipped_approve = wk[a].skipped_approve + 1
                       /\ wk'[a].pc \in {"buy_build", "target"}
               /\ ~enough
                    => /\ wk'[a].skipped_approve = wk[a].skipped_approve
                       /\ wk'[a].pc = "approve_build"
                       /\ wk'[a].ti = wk[a].ti
       ]_vars

\* C17 witness: the allowance read has just raised, nothing was skipped and
\* the worker is about to build the approval
C17_Witness ==
    \E a \in Accounts :
      /\ wk[a].allowance_val = ReadFailed
      /\ wk[a].pc = "approve_build"
      /\ wk[a].skipped_approve = 0
      /\ CHECK_ALLOWANCE

\* C18: from the nonce fetch to the return, a worker's nonce equals the nonce
\* it fetched plus the approvals it counted as sent plus the buys it counted
\* as sent; and a step of the worker leaves the nonce as it is or adds 1.
C18_NonceIsStartPlusSent ==
    /\ [](\A a \in Accounts :
            InLoop(wk[a])
            => /\ wk[a].nonce_fetch = "ok"
               /\ wk[a].nonce = pending_nonce[a] + wk[a].sent_approve + wk[a].sent_buy)
    /\ [][\A a \in Accounts :
            (InLoop(wk[a]) /\ InLoop(wk'[a]))
            => wk'[a].nonce \in {wk[a].nonce, wk[a].nonce + 1}
      ]_vars

\* C18 witness: a worker that started from a nonce above zero has a confirmed
\* approval and two accepted buys behind it
C18_Witness ==
    \E a \in Accounts :
      /\ InLoop(wk[a])
      /\ pending_nonce[a] = MaxStartNonce
      /\ wk[a].sent_approve = 1
      /\ wk[a].sent_buy = 2
      /\ wk[a].nonce = MaxStartNonce + 3

\* the transactions of the given kind that worker a got accepted for target i
Submitted(a, kind, i) ==
    {j \in 1..Len(wk[a].txlog) :
        wk[a].txlog[j].kind = kind /\ TargetIndex(wk[a].txlog[j]) = i}

SubmittedOfKind(a, kind) ==
    {j \in 1..Len(wk[a].txlog) : wk[a].txlog[j].kind = kind}

\* per target at most one approval and at most one buy accepted (seen on the
\* chain when the targets are different markets), no approval for a target
\* whose approval was skipped, and counters that never exceed
\* the targets behind the worker, nor the number of targets in a result
AtMostOncePerTarget ==
    \A a \in Accounts :
      LET k == Len(spenders)
          approvals == Cardinality(SubmittedOfKind(a, "approve"))
          buys == Cardinality(SubmittedOfKind(a, "buy"))
      IN /\ DistinctMarkets(spenders)
              => \A i \in 1..k :
                   /\ Cardinality(Submitted(a, "approve", i)) <= 1
                   /\ Cardinality(Submitted(a, "buy", i)) <= 1
         /\ InLoop(wk[a])
              => /\ wk[a].ti \in 1..(k + 1)
                 /\ wk[a].pc # "target" => wk[a].ti <= k
                 /\ wk[a].sent_approve <= approvals
                 /\ wk[a].skipped_approve + approvals
                      <= (wk[a].ti - 1) + (IF StageRank(wk[a].pc) >= 4 THEN 1 ELSE 0)
                 /\ wk[a].sent_buy = buys
                 /\ buys <= (wk[a].ti - 1) + (IF wk[a].pc = "buy_sleep" THEN 1 ELSE 0)
         /\ wk[a].pc = "done"
              => /\ wk[a].result[2] + wk[a].result[4] <= k
                 /\ wk[a].result[4] + approvals <= k
                 /\ wk[a].result[3] <= k
                 /\ wk[a].result[3] = buys

\* C19: whatever the endpoint answers, each target of a worker that has entered
\* the target loop is visited exactly once: the worker moves through the list
\* one target at a time and leaves the loop only by returning its tuple after
\* the last target; each target gets at most one approval and at most one
\* buy, never both a skip and an approval; and every returned tuple has
\* approvals sent plus skipped at most the number of targets and buys sent at
\* most the number of targets.
C19_EachTargetOnce ==
    /\ []AtMostOncePerTarget
    /\ [][\A a \in Accounts :
            (Stepped(a) /\ InLoop(wk[a]))
            => /\ InLoop(wk'[a]) => wk'[a].ti \in {wk[a].ti, wk[a].ti + 1}
               /\ ~InLoop(wk'[a])
                    => /\ wk[a].ti = Len(spenders) + 1
                       /\ wk'[a].pc = "done"
      ]_vars

\* the place of the first occurrence of address m in the list ms
FirstIndex(ms, m) ==
    CHOOSE i \in 1..Len(ms) :
      ms[i] = m /\ \A j \in 1..(i - 1) : ms[j] # m

\* the map built from a market list has the single key 0, and its list holds
\* no empty string, holds each non-empty string of the input exactly once and
\* nothing else, in the order of their first occurrences in the input; and
\* built again from its own list it holds the same list
PrepareDedupsStrings ==
    opc \in {"prepared", "prepared_again"}
    => LET uniq == spenders_map[0]
           given == market_addresses
       IN /\ DOMAIN spenders_map = {0}
          /\ \A i \in 1..Len(uniq) : uniq[i] # ""
          /\ \A i, j \in 1..Len(uniq) : i # j => uniq[i] # uniq[j]
          /\ {uniq[i] : i \in 1..Len(uniq)}
               = {given[i] : i \in 1..Len(given)} \ {""}
          /\ \A i, j \in 1..Len(uniq) :
               i < j => FirstIndex(given, uniq[i]) < FirstIndex(given, uniq[j])
          /\ opc = "prepared" => spenders = uniq
          /\ opc = "prepared_again" => uniq = spenders /\ given = spenders

\* C20: the map built from a market list has the single key 0 and a list that
\* holds each non-empty address of the input exactly once, in order of first
\* occurrence, and is unchanged when built again from itself; so no market
\* address is in the list of targets twice, and a worker handles a market
\* that the input repeats at most once.
C20_PrepareDedupsInOrder ==
    /\ PrepareDedupsStrings
    /\ opc \in {"prepared", "prepared_again"} => DistinctMarkets(spenders_map[0])

====
